---- MODULE Spec2Model ----
(***************************************************************************)
(* Model of the Echo primer-transfer scripts.                              *)
(*                                                                         *)
(*   src/ai_suggested/echoscripts_utils.py                                 *)
(*       wells384_list, split_primers_from_grid, EchoTransferGenerator     *)
(*       (sample_primers, generate_transfer_df)                            *)
(*   src/echo_transfer.py                                                  *)
(*       well_to_row_col, row_col_to_well, generate_*_well_positions       *)
(*                                                                         *)
(* Strings are sequences of character codes (ord), so that formatting and  *)
(* parsing of well labels are real conversions.  Python's None is the      *)
(* value None below.  Indices drawn by np.random.randint are 0-based and   *)
(* are kept 0-based; a pool (a TLA+ sequence) is read at index + 1.        *)
(***************************************************************************)
EXTENDS Integers, Sequences, FiniteSets, TLC

(***************************************************************************)
(* Bounds of the model.                                                    *)
(***************************************************************************)
\* The destination plate of generate_transfer_df is range(16) x range(24);
\* the model walks a plate of PlateRows x PlateCols cells with the same loops.
PlateRows == 1
PlateCols == 2
\* Largest active (trimmed) forward and reverse pool the model constructs.
MaxFwd == 3
MaxRev == 2
\* Number of values of the seeded pseudo-random streams that are recorded.
MaxDraws == 6

\* Largest grid a generator is constructed with, and largest offset passed
\* to sample_primers, where the partitioner is checked.
MaxGridRows == 4
MaxGridCols == 4
MaxOffset == 5
\* Largest plate whose wells are listed.
MaxWellRows == 26
MaxWellCols == 3

\* sample_primers(self, offset: int = 12)
DefaultOffset == 12

Inv == {1, 2}
Seeds == {1, 2}
Volumes == {100, 500}
None == -1
\* id of the process-wide random source before anyone has called np.random.seed
Unseeded == 0

Max(a, b) == IF a >= b THEN a ELSE b
Min(a, b) == IF a <= b THEN a ELSE b

(***************************************************************************)
(* Strings.                                                                *)
(***************************************************************************)
\* str(n) for n >= 0: the decimal digits, most significant first
RECURSIVE Str(_)
Str(n) == IF n < 10 THEN <<48 + n>> ELSE Str(n \div 10) \o <<48 + (n % 10)>>

\* int(s) for a string of decimal digits
RECURSIVE ParseInt(_)
ParseInt(s) ==
    IF Len(s) = 0 THEN 0
    ELSE 10 * ParseInt(SubSeq(s, 1, Len(s) - 1)) + (s[Len(s)] - 48)

\* c.upper() for one character
Upper(c) == IF c >= 97 /\ c <= 122 THEN c - 32 ELSE c

\* chr(ord('A') + row)
ChrA(row) == 65 + row

\* string.ascii_uppercase
AsciiUppercase == [i \in 1..26 |-> 64 + i]

\* s[k:] of Python, for a sequence s and an integer k
PySliceFrom(s, k) ==
    IF k >= 0 THEN SubSeq(s, k + 1, Len(s))
    ELSE SubSeq(s, Max(Len(s) + k, 0) + 1, Len(s))

VARIABLES
    \* the process-wide numpy random state, and what is known of each seed's stream
    rng, streams,
    \* one EchoTransferGenerator and one call of generate_transfer_df per t \in Inv
    pc, randseed, use_seed, volume_nl,
    fprimers_full, rprimers_full, fprimers, rprimers,
    iforward, ireverse, currtup, covered_list,
    sourcewells, destwells, vols, row, col, err, df,
    \* history: a call started while another call was running
    concurrent,
    \* the grid a generator is constructed with, and the offset of a direct call
    \* of sample_primers
    grid, offset,
    \* generate_384_well_positions / generate_96_well_positions: the plate, the
    \* two loop variables, the list, and the last label decoded from the list
    wfmt, wrow, wcol, wells, wpc, decoded

rngVars == <<rng, streams>>
partVars == <<grid, offset>>
wellVars == <<wfmt, wrow, wcol, wells, wpc, decoded>>
genVars == <<pc, randseed, use_seed, volume_nl, fprimers_full, rprimers_full,
             fprimers, rprimers, iforward, ireverse, currtup, covered_list,
             sourcewells, destwells, vols, row, col, err, df, concurrent>>
vars == <<rngVars, genVars, partVars, wellVars>>

(***************************************************************************)
(* EchoTransferGenerator                                                   *)
(***************************************************************************)
\* an identifier pool passed to the constructor: n distinct opaque labels,
\* 101, 102, ... for a forward pool (tag 1), 201, 202, ... for a reverse pool
Pool(tag, n) == [i \in 1..n |-> 100 * tag + i]

\* the two pools a caller passes need not be disjoint: "distinct" are two
\* pools without a common label, "reversed" is a reverse pool that lists the
\* labels of the forward pool in the opposite order
Layouts == {"distinct", "reversed"}
PoolOf(layout, tag, n) ==
    IF layout = "reversed" /\ tag = 2
    THEN [i \in 1..n |-> Pool(1, n)[n + 1 - i]]
    ELSE Pool(tag, n)

\* the lengths of the full pools the model constructs: the active pools have
\* 0 (twice: offset beyond the end, offset at the end), 1 .. MaxFwd (MaxRev)
\* entries
FwdSizes == (DefaultOffset - 1)..(DefaultOffset + MaxFwd)
RevSizes == (DefaultOffset - 1)..(DefaultOffset + MaxRev)

\* sample_primers: drop the first `offset` entries of each full pool
SamplePrimers(ffull, rfull, off) ==
    <<PySliceFrom(ffull, off), PySliceFrom(rfull, off)>>

\* a slip: the column written 0-based
DestLabelZeroBased(r, c) == <<AsciiUppercase[r + 1]>> \o Str(c)

\* dest = string.ascii_uppercase[row] + str(col + 1)
DestLabel(r, c) == <<AsciiUppercase[r + 1]>> \o Str(c + 1)

Running(t) == pc[t] \in {"first_f", "first_r", "cell", "re_f", "re_r"}

\* a slip: np.random.seed() without the seed, which reseeds from the system
SeedRngNoArg(s) == [id |-> Unseeded, pos |-> 0]

\* np.random.seed(s): the process-wide state restarts stream s
SeedRng(s) == [id |-> s, pos |-> 0]

\* The steps at "cell" (Resample, Accept, Return) read and write only the
\* call's own locals, so they commute with every step of another call: the
\* steps that touch the shared random state are taken once no other call has
\* such a local step pending, which loses none of the outcomes.
Quiet(t) == \A u \in Inv \ {t} : pc[u] # "cell"

\* lines 67-75: the pools, the optional reseed, the empty lists
Call(t) ==
    /\ Quiet(t)
    /\ UNCHANGED <<partVars, wellVars>>
    /\ pc[t] = "idle"
    /\ LET p == SamplePrimers(fprimers_full[t], rprimers_full[t], DefaultOffset)
       IN /\ fprimers' = [fprimers EXCEPT ![t] = p[1]]
          /\ rprimers' = [rprimers EXCEPT ![t] = p[2]]
    /\ rng' = IF use_seed[t] THEN SeedRng(randseed[t]) ELSE rng
    /\ sourcewells' = [sourcewells EXCEPT ![t] = <<>>]
    /\ destwells' = [destwells EXCEPT ![t] = <<>>]
    /\ vols' = [vols EXCEPT ![t] = <<>>]
    /\ covered_list' = [covered_list EXCEPT ![t] = <<>>]
    /\ pc' = [pc EXCEPT ![t] = "first_f"]
    /\ concurrent' = (concurrent \/ \E u \in Inv \ {t} : Running(u))
    /\ UNCHANGED <<streams, randseed, use_seed, volume_nl, fprimers_full,
                   rprimers_full, iforward, ireverse, currtup, row, col, err, df>>

\* the raw values of a stream: as many as the largest active pool of the run
\* has entries (more would only repeat the same outcomes)
RawValues ==
    LET sizes == UNION {{Len(fprimers_full[t]), Len(rprimers_full[t])} : t \in Inv}
        most == CHOOSE n \in sizes : \A m \in sizes : m <= n
    IN 0..(most - DefaultOffset - 1)

\* how many stream values are recorded, over all seeds
Recorded == Len(streams[1]) + Len(streams[2])

\* np.random.randint(0, n) returning v, for n > 0.  Every call advances the
\* process-wide state.  Before any seeding the source is run-varying: any
\* value, and of the position only the parity is kept, since nothing reads
\* that stream twice.  After np.random.seed(s) the values are those of
\* stream s in order: what an earlier reader of the stream saw, or, past the
\* recorded prefix, a new value that is recorded.  A raw value r of the
\* stream is returned as r % n.
Randint(n, v) ==
    /\ n > 0
    /\ v \in 0..(n - 1)
    /\ IF rng.id = Unseeded
       THEN /\ rng' = [rng EXCEPT !.pos = 1 - @]
            /\ UNCHANGED streams
       ELSE /\ rng' = [rng EXCEPT !.pos = @ + 1]
            /\ IF rng.pos < Len(streams[rng.id])
               THEN /\ v = streams[rng.id][rng.pos + 1] % n
                    /\ UNCHANGED streams
               ELSE /\ Recorded < MaxDraws
                    /\ \E raw \in RawValues :
                          /\ raw % n = v
                          /\ streams' = [streams EXCEPT ![rng.id] = Append(@, raw)]

\* lines 78-79 and 87-88: iforward = randint(0, len(fprimers)); ireverse = iforward
DrawForward(t, v) ==
    /\ Quiet(t)
    /\ UNCHANGED <<partVars, wellVars>>
    /\ pc[t] \in {"first_f", "re_f"}
    /\ Randint(Len(fprimers[t]), v)
    /\ iforward' = [iforward EXCEPT ![t] = v]
    /\ ireverse' = [ireverse EXCEPT ![t] = v]
    /\ pc' = [pc EXCEPT ![t] = IF pc[t] = "first_f" THEN "first_r" ELSE "re_r"]
    /\ UNCHANGED <<randseed, use_seed, volume_nl, fprimers_full, rprimers_full,
                   fprimers, rprimers, currtup, covered_list, sourcewells,
                   destwells, vols, row, col, err, df, concurrent>>

\* a slip: the reverse index drawn once, never compared with iforward
LoopEndsAlways(f, v) == TRUE

\* the inner loop ends when the drawn reverse index differs from iforward
LoopEnds(f, v) == v # f

\* lines 80-82 and 89-91: one turn of `while ireverse == iforward`, entered
\* with ireverse == iforward: draw, and leave the loop with currtup set when
\* the draw differs
DrawReverse(t, v) ==
    /\ Quiet(t)
    /\ UNCHANGED <<partVars, wellVars>>
    /\ pc[t] \in {"first_r", "re_r"}
    /\ Randint(Len(rprimers[t]), v)
    /\ ireverse' = [ireverse EXCEPT ![t] = v]
    /\ IF LoopEnds(iforward[t], v)
       THEN /\ currtup' = [currtup EXCEPT ![t] = <<iforward[t], v>>]
            /\ pc' = [pc EXCEPT ![t] = "cell"]
       ELSE UNCHANGED <<currtup, pc>>
    /\ UNCHANGED <<randseed, use_seed, volume_nl, fprimers_full, rprimers_full,
                   fprimers, rprimers, iforward, covered_list, sourcewells,
                   destwells, vols, row, col, err, df, concurrent>>

\* np.random.randint(0, 0) raises ValueError (low >= high)
RaiseValueError(t) ==
    /\ Quiet(t)
    /\ UNCHANGED <<partVars, wellVars>>
    /\ \/ pc[t] \in {"first_f", "re_f"} /\ Len(fprimers[t]) = 0
       \/ pc[t] \in {"first_r", "re_r"} /\ Len(rprimers[t]) = 0
    /\ pc' = [pc EXCEPT ![t] = "raised"]
    /\ err' = [err EXCEPT ![t] = "ValueError"]
    /\ UNCHANGED <<rngVars, randseed, use_seed, volume_nl, fprimers_full,
                   rprimers_full, fprimers, rprimers, iforward, ireverse,
                   currtup, covered_list, sourcewells, destwells, vols, row,
                   col, df, concurrent>>

\* x in lst
In(x, lst) == \E i \in 1..Len(lst) : lst[i] = x

\* a slip: the membership test misses the pair accepted last
CoveredButLast(tup, lst) == In(tup, SubSeq(lst, 1, Len(lst) - 1))

\* line 86: while currtup in covered_list
Covered(tup, lst) == In(tup, lst)

\* a slip: only the reverse index is drawn again, the forward index is kept
ResampleReverseOnly(t) ==
    /\ UNCHANGED <<partVars, wellVars>>
    /\ pc[t] = "cell"
    /\ row[t] < PlateRows
    /\ In(currtup[t], covered_list[t])
    /\ pc' = [pc EXCEPT ![t] = "re_r"]
    /\ ireverse' = [ireverse EXCEPT ![t] = iforward[t]]
    /\ UNCHANGED <<rngVars, randseed, use_seed, volume_nl, fprimers_full,
                   rprimers_full, fprimers, rprimers, iforward,
                   currtup, covered_list, sourcewells, destwells, vols, row,
                   col, err, df, concurrent>>

\* line 86, condition true: go and draw a new pair
Resample(t) ==
    /\ UNCHANGED <<partVars, wellVars>>
    /\ pc[t] = "cell"
    /\ row[t] < PlateRows
    /\ Covered(currtup[t], covered_list[t])
    /\ pc' = [pc EXCEPT ![t] = "re_f"]
    /\ UNCHANGED <<rngVars, randseed, use_seed, volume_nl, fprimers_full,
                   rprimers_full, fprimers, rprimers, iforward, ireverse,
                   currtup, covered_list, sourcewells, destwells, vols, row,
                   col, err, df, concurrent>>

\* a slip: the forward source read from the untrimmed pool
ForwardSourceFull(t) == fprimers_full[t][iforward[t] + 1]

\* lines 96-102: the two transfer lines of one destination well
ForwardSource(t) == fprimers[t][iforward[t] + 1]
ReverseSource(t) == rprimers[t][ireverse[t] + 1]
LineVolume(t) == volume_nl[t]

\* a slip: the list rebuilt from the new pair alone
CoveredKeepLast(lst, tup) == <<tup>>

\* line 92: covered_list.append(currtup)
CoveredAppend(lst, tup) == Append(lst, tup)

\* line 86, condition false, and lines 92-102: accept the pair for the well
\* (row, col), emit its two lines, and step the two for loops
Accept(t) ==
    /\ UNCHANGED <<partVars, wellVars>>
    /\ pc[t] = "cell"
    /\ row[t] < PlateRows
    /\ ~Covered(currtup[t], covered_list[t])
    /\ covered_list' = [covered_list EXCEPT ![t] = CoveredAppend(@, currtup[t])]
    /\ LET dest == DestLabel(row[t], col[t])
       IN /\ sourcewells' = [sourcewells EXCEPT
                               ![t] = @ \o <<ForwardSource(t), ReverseSource(t)>>]
          /\ destwells' = [destwells EXCEPT ![t] = @ \o <<dest, dest>>]
          /\ vols' = [vols EXCEPT ![t] = @ \o <<LineVolume(t), LineVolume(t)>>]
    /\ IF col[t] + 1 < PlateCols
       THEN /\ col' = [col EXCEPT ![t] = @ + 1]
            /\ UNCHANGED row
       ELSE /\ col' = [col EXCEPT ![t] = 0]
            /\ row' = [row EXCEPT ![t] = @ + 1]
    /\ UNCHANGED <<rngVars, pc, randseed, use_seed, volume_nl, fprimers_full,
                   rprimers_full, fprimers, rprimers, iforward, ireverse,
                   currtup, err, df, concurrent>>

\* lines 104-105: the data frame, one row per transfer line
Return(t) ==
    /\ UNCHANGED <<partVars, wellVars>>
    /\ pc[t] = "cell"
    /\ row[t] = PlateRows
    /\ df' = [df EXCEPT ![t] =
                [i \in 1..Len(sourcewells[t]) |->
                    [Source |-> sourcewells[t][i],
                     Destination |-> destwells[t][i],
                     Volume |-> vols[t][i]]]]
    /\ pc' = [pc EXCEPT ![t] = "done"]
    /\ UNCHANGED <<rngVars, randseed, use_seed, volume_nl, fprimers_full,
                   rprimers_full, fprimers, rprimers, iforward, ireverse,
                   currtup, covered_list, sourcewells, destwells, vols, row,
                   col, err, concurrent>>

\* no grid is kept (the pools were passed to the constructor, and nothing
\* reads the grid after construction), no direct call of sample_primers
InitNoPart ==
    /\ grid = [t \in Inv |-> <<>>]
    /\ offset = DefaultOffset

\* no well list is being generated
InitNoWells ==
    /\ wfmt = <<0, 0>>
    /\ wrow = 0
    /\ wcol = 0
    /\ wells = <<>>
    /\ wpc = "off"
    /\ decoded = <<>>

\* the state after construction; `callers` are the generators that exist
InitPools(callers, seeded, seeds, fsizes, rsizes, volumes, alike, layouts) ==
    /\ rng = [id |-> Unseeded, pos |-> 0]
    /\ streams = [s \in Seeds |-> <<>>]
    /\ pc = [t \in Inv |-> IF t \in callers THEN "idle" ELSE "absent"]
    /\ randseed \in [Inv -> seeds]
    /\ use_seed \in [Inv -> seeded]
    /\ volume_nl \in [Inv -> volumes \cup {100}]
    /\ \A t \in callers : volume_nl[t] \in volumes
    /\ \E fl \in [Inv -> fsizes \cup {DefaultOffset}],
          rl \in [Inv -> rsizes \cup {DefaultOffset}] :
          /\ \A t \in callers : fl[t] \in fsizes /\ rl[t] \in rsizes
          /\ alike => \A t, u \in callers : fl[t] = fl[u] /\ rl[t] = rl[u]
          /\ \E lay \in layouts :
                /\ fprimers_full = [t \in Inv |-> PoolOf(lay, 1, fl[t])]
                /\ rprimers_full = [t \in Inv |-> PoolOf(lay, 2, rl[t])]
    /\ alike => \A t, u \in callers : volume_nl[t] = volume_nl[u]
    /\ \A t \in Inv \ callers :
          /\ randseed[t] = 1
          /\ use_seed[t] = FALSE
          /\ volume_nl[t] = 100
          /\ Len(fprimers_full[t]) = DefaultOffset
          /\ Len(rprimers_full[t]) = DefaultOffset
    /\ fprimers = [t \in Inv |-> <<>>]
    /\ rprimers = [t \in Inv |-> <<>>]
    /\ iforward = [t \in Inv |-> None]
    /\ ireverse = [t \in Inv |-> None]
    /\ currtup = [t \in Inv |-> <<>>]
    /\ covered_list = [t \in Inv |-> <<>>]
    /\ sourcewells = [t \in Inv |-> <<>>]
    /\ destwells = [t \in Inv |-> <<>>]
    /\ vols = [t \in Inv |-> <<>>]
    /\ row = [t \in Inv |-> 0]
    /\ col = [t \in Inv |-> 0]
    /\ err = [t \in Inv |-> "none"]
    /\ df = [t \in Inv |-> <<>>]
    /\ concurrent = FALSE
    /\ InitNoPart
    /\ InitNoWells

\* the same, the two pools of a generator without a common label
InitGen(callers, seeded, seeds, fsizes, rsizes, volumes, alike) ==
    InitPools(callers, seeded, seeds, fsizes, rsizes, volumes, alike,
              {"distinct"})

\* one generator, one call
Init == InitGen({1}, BOOLEAN, {1}, FwdSizes, RevSizes, Volumes, FALSE)

Next ==
    \E t \in Inv :
        \/ Call(t)
        \/ \E v \in 0..(MaxFwd - 1) : DrawForward(t, v)
        \/ \E v \in 0..(MaxRev - 1) : DrawReverse(t, v)
        \/ RaiseValueError(t)
        \/ Resample(t)
        \/ Accept(t)
        \/ Return(t)

Spec == Init /\ [][Next]_vars

(***************************************************************************)
(* Properties of the pair assignment.                                      *)
(***************************************************************************)
\* number of destination wells
NumCells == PlateRows * PlateCols

\* sizes of the active pools of generator t, from its full pools
F(t) == Len(SamplePrimers(fprimers_full[t], rprimers_full[t], DefaultOffset)[1])
R(t) == Len(SamplePrimers(fprimers_full[t], rprimers_full[t], DefaultOffset)[2])

\* the usable pair space F*R - min(F, R)
PairSpace(t) == F(t) * R(t) - Min(F(t), R(t))

Started(t) == pc[t] \notin {"absent", "idle"}

\* the (forward, reverse) source labels of the k-th destination well, k >= 1
EmittedPair(t, k) == <<sourcewells[t][2 * k - 1], sourcewells[t][2 * k]>>

\* C1: no (forward_index, reverse_index) pair is accepted for two different
\* destination cells, and so no two cells are fed from the same two sources.
C1_NoPairRepeats ==
    \A t \in Inv :
        /\ \A i, j \in 1..Len(covered_list[t]) :
              i # j => covered_list[t][i] # covered_list[t][j]
        /\ Len(sourcewells[t]) = 2 * Len(covered_list[t])
        /\ \A i, j \in 1..Len(covered_list[t]) :
              i # j => EmittedPair(t, i) # EmittedPair(t, j)

\* a finished run over at least two cells
C1_Witness ==
    \E t \in Inv : pc[t] = "done" /\ Len(covered_list[t]) >= 2

\* C2: with the usable pair space smaller than the number of cells the call
\* fails with a CapacityError before any draw: no index is ever drawn, the
\* resampling loop is never entered, no record is produced.
C2_CapacityErrorBeforeDraw ==
    \A t \in Inv :
        (Started(t) /\ F(t) >= 1 /\ R(t) >= 1 /\ PairSpace(t) < NumCells)
            => /\ iforward[t] = None
               /\ pc[t] \notin {"re_f", "re_r", "done"}
               /\ sourcewells[t] = <<>>
               /\ (pc[t] = "raised" => err[t] = "CapacityError")

C6_NoSelfPair ==
    \A t \in Inv :
        \A i \in 1..Len(covered_list[t]) :
            covered_list[t][i][1] # covered_list[t][i][2]

\* a finished run whose pools both hold index 0 and index 1
C6_Witness ==
    \E t \in Inv :
        /\ pc[t] = "done"
        /\ Len(fprimers[t]) >= 2
        /\ Len(rprimers[t]) >= 2
        /\ Len(covered_list[t]) >= 1

\* C10: when trimming leaves an active pool empty the partitioner fails with
\* a ConfigurationError and no index is ever drawn.
C10_ConfigurationError ==
    \A t \in Inv :
        (Started(t) /\ (F(t) = 0 \/ R(t) = 0))
            => /\ pc[t] = "raised"
               /\ err[t] = "ConfigurationError"
               /\ iforward[t] = None

\* the number of destination wells the two for loops have finished
Processed(t) == row[t] * PlateCols + col[t]

\* the pair key of the k-th well, read back from the two lines emitted for it
KeyOfCell(t, k) ==
    CHOOSE key \in (0..(Len(fprimers[t]) - 1)) \X (0..(Len(rprimers[t]) - 1)) :
        /\ fprimers[t][key[1] + 1] = sourcewells[t][2 * k - 1]
        /\ rprimers[t][key[2] + 1] = sourcewells[t][2 * k]

\* covered_list holds one key per finished well, the key of that well
OneKeyPerCell ==
    \A t \in Inv :
        /\ Len(covered_list[t]) = Processed(t)
        /\ Len(sourcewells[t]) = 2 * Processed(t)
        /\ \A k \in 1..Len(covered_list[t]) :
              /\ covered_list[t][k] = KeyOfCell(t, k)
              /\ \A j \in 1..(k - 1) : covered_list[t][j] # covered_list[t][k]

\* a step leaves the keys already in covered_list where they are and adds at
\* most one
OnlyGrows ==
    \A t \in Inv :
        /\ Len(covered_list'[t]) \in {Len(covered_list[t]), Len(covered_list[t]) + 1}
        /\ \A k \in 1..Len(covered_list[t]) :
              covered_list'[t][k] = covered_list[t][k]

\* C11: at every point of a run covered_list holds exactly one pair key per
\* destination well processed so far, no key is in it twice, and no step
\* removes or replaces a key that is in it.
C11_CoveredSetGrows == []OneKeyPerCell /\ [][OnlyGrows]_vars

\* every well of the plate processed, the call not yet returned
C11_Witness ==
    \E t \in Inv :
        /\ pc[t] = "cell"
        /\ NumCells >= 2
        /\ Processed(t) = NumCells
        /\ Len(covered_list[t]) = NumCells

(***************************************************************************)
(* Reserved identifiers: one generator whose two pools may share labels.   *)
(***************************************************************************)
LabelSizes == {DefaultOffset, DefaultOffset + MaxRev}

InitLabels ==
    InitPools({1}, BOOLEAN, {1}, LabelSizes, LabelSizes, Volumes, FALSE, Layouts)

SpecLabels == InitLabels /\ [][Next]_vars

\* the labels of a sequence
Labels(s) == {s[i] : i \in 1..Len(s)}

\* the first `offset` entries of a full pool (all of it when it is shorter)
ReservedOf(full) == Labels(SubSeq(full, 1, Min(DefaultOffset, Len(full))))

\* the labels of the full pool after its first `offset` entries
TrimmedOf(full) == Labels(SubSeq(full, DefaultOffset + 1, Len(full)))

\* no label occurs twice in the two full pools of generator t taken together
LabelsDistinct(t) ==
    LET both == fprimers_full[t] \o rprimers_full[t]
    IN \A i, j \in 1..Len(both) : i # j => both[i] # both[j]

\* C12, as stated: no source label of any record is one of the first
\* `offset` entries of the full forward pool or of the full reverse pool;
\* forward records are sourced from the trimmed forward pool and reverse
\* records from the trimmed reverse pool.
C12_NoReservedSource ==
    \A t \in Inv : \A k \in 1..Len(sourcewells[t]) :
        /\ sourcewells[t][k] \notin ReservedOf(fprimers_full[t])
        /\ sourcewells[t][k] \notin ReservedOf(rprimers_full[t])
        /\ k % 2 = 1 => sourcewells[t][k] \in TrimmedOf(fprimers_full[t])
        /\ k % 2 = 0 => sourcewells[t][k] \in TrimmedOf(rprimers_full[t])

\* C12, amended: the forward record of every well is the entry of the full
\* forward pool at position offset + forward_index, the reverse record the
\* entry of the full reverse pool at position offset + reverse_index, so no
\* record is read from one of the first `offset` positions of its own pool;
\* when no label occurs twice in the two full pools, no source label is a
\* reserved label of either pool.  The records of the returned frame are these.
C12_SourcedPastOffset ==
    \A t \in Inv :
        /\ Len(sourcewells[t]) = 2 * Len(covered_list[t])
        /\ \A c \in 1..Len(covered_list[t]) :
              LET fpos == DefaultOffset + covered_list[t][c][1] + 1
                  rpos == DefaultOffset + covered_list[t][c][2] + 1
              IN /\ fpos <= Len(fprimers_full[t])
                 /\ rpos <= Len(rprimers_full[t])
                 /\ sourcewells[t][2 * c - 1] = fprimers_full[t][fpos]
                 /\ sourcewells[t][2 * c] = rprimers_full[t][rpos]
        /\ LabelsDistinct(t) =>
              \A k \in 1..Len(sourcewells[t]) :
                  /\ sourcewells[t][k] \notin ReservedOf(fprimers_full[t])
                  /\ sourcewells[t][k] \notin ReservedOf(rprimers_full[t])
        /\ pc[t] = "done" =>
              /\ Len(df[t]) = Len(sourcewells[t])
              /\ \A k \in 1..Len(df[t]) : df[t][k].Source = sourcewells[t][k]

\* a returned frame over the whole plate, made from two pools without a
\* common label, its first record read from the trimmed forward pool
C12_Witness ==
    \E t \in Inv :
        /\ pc[t] = "done"
        /\ Len(df[t]) = 2 * NumCells
        /\ Len(fprimers_full[t]) > DefaultOffset
        /\ df[t][1].Source \in TrimmedOf(fprimers_full[t])
        /\ LabelsDistinct(t)

(***************************************************************************)
(* Termination under fair random draws.                                    *)
(*                                                                         *)
(* The interpreter keeps executing (WF on Next).  np.random.randint gives  *)
(* every value of its range a probability bounded away from 0, so with     *)
(* probability 1 an outcome that is possible again and again is drawn:     *)
(*  - a reverse draw that ends the inner loop, possible at every turn of   *)
(*    the loop once it is possible at all (WF on ExitReverse);             *)
(*  - a forward index that still has an unused partner, and a reverse      *)
(*    index that completes an unused pair, possible at every new visit of  *)
(*    the draw (SF on GoodForward, GoodReverse).                           *)
(* The run is unseeded, so the stream has no recorded prefix to exhaust.   *)
(***************************************************************************)
InitFair == InitGen({1}, {FALSE}, {1}, FwdSizes, RevSizes, {500}, FALSE)

Acceptable(t, f, r) == r # f /\ ~In(<<f, r>>, covered_list[t])

ExitReverse(t) ==
    /\ \E v \in 0..(MaxRev - 1) : DrawReverse(t, v) /\ v # iforward[t]

GoodForward(t) ==
    /\ \E f \in 0..(MaxFwd - 1) :
          /\ DrawForward(t, f)
          /\ \E r \in 0..(Len(rprimers[t]) - 1) : Acceptable(t, f, r)

GoodReverse(t) ==
    /\ \E r \in 0..(MaxRev - 1) :
          DrawReverse(t, r) /\ Acceptable(t, iforward[t], r)

Fairness ==
    /\ WF_vars(Next)
    /\ WF_vars(ExitReverse(1))
    /\ SF_vars(GoodForward(1))
    /\ SF_vars(GoodReverse(1))

FairSpec == InitFair /\ [][Next]_vars /\ Fairness

\* C3 as stated: with F >= 1, R >= 1 and no more cells than F*R - min(F, R)
\* the assignment eventually finishes.
C3_CapacitySufficient ==
    (F(1) >= 1 /\ R(1) >= 1 /\ NumCells <= PairSpace(1)) => <>(pc[1] = "done")

\* C3, amended: with F >= 1, R >= 2 and no more cells than F*R - min(F, R)
\* the assignment eventually finishes under fair random draws.
C3_TerminatesWithTwoReverse ==
    (F(1) >= 1 /\ R(1) >= 2 /\ NumCells <= PairSpace(1)) => <>(pc[1] = "done")

\* a finished run with the capacity precondition and a reverse pool of two
C3_Witness ==
    /\ pc[1] = "done"
    /\ R(1) >= 2
    /\ NumCells <= PairSpace(1)
    /\ Len(covered_list[1]) = NumCells

(***************************************************************************)
(* Two generators and two calls on the one process-wide random state.      *)
(***************************************************************************)
\* both generators are built alike, each pool with two active primers or
\* none, and both calls pass use_seed = True and the same volume
SeedSizes == {DefaultOffset, DefaultOffset + 2}

\* (the seeds 2, 1 and 2, 2 are 1, 2 and 1, 1 with the seeds renamed)
InitSeed ==
    /\ InitGen({1, 2}, {TRUE}, Seeds, SeedSizes, SeedSizes, Volumes, TRUE)
    /\ randseed[1] = 1

SpecSeed == InitSeed /\ [][Next]_vars

\* the data frame of lines 96-104 for the accepted pairs cov
Frame(t, cov) ==
    [i \in 1..(2 * Len(cov)) |->
        LET k == (i + 1) \div 2
        IN [Source |-> IF i % 2 = 1 THEN fprimers[t][cov[k][1] + 1]
                       ELSE rprimers[t][cov[k][2] + 1],
            Destination |-> DestLabel((k - 1) \div PlateCols, (k - 1) % PlateCols),
            Volume |-> volume_nl[t]]]

Unknown == <<"unknown">>

\* lines 78-92 run alone on the stream str from its start, with pools of nf
\* and nr entries: the accepted pairs, or Unknown where the recorded prefix
\* of the stream ends before the run does
RECURSIVE Alone(_, _, _, _)
Alone(str, nf, nr, st) ==
    IF st.at = "cell"
    THEN IF Len(st.cov) = NumCells THEN st.cov
         ELSE IF In(st.cur, st.cov) THEN Alone(str, nf, nr, [st EXCEPT !.at = "f"])
         ELSE Alone(str, nf, nr, [st EXCEPT !.cov = Append(@, st.cur)])
    ELSE IF st.pos >= Len(str) \/ nf = 0 \/ nr = 0 THEN Unknown
    ELSE IF st.at = "f"
    THEN Alone(str, nf, nr,
               [st EXCEPT !.at = "r", !.f = str[st.pos + 1] % nf, !.pos = @ + 1])
    ELSE LET v == str[st.pos + 1] % nr
         IN IF v # st.f
            THEN Alone(str, nf, nr,
                       [st EXCEPT !.at = "cell", !.cur = <<st.f, v>>, !.pos = @ + 1])
            ELSE Alone(str, nf, nr, [st EXCEPT !.pos = @ + 1])

AloneStart == [at |-> "f", pos |-> 0, f |-> None, cur |-> <<>>, cov |-> <<>>]

\* what call t returns when nothing else touches the random state
AloneFrame(t) ==
    LET cov == Alone(streams[randseed[t]], Len(fprimers[t]), Len(rprimers[t]),
                     AloneStart)
    IN IF cov = Unknown THEN Unknown ELSE Frame(t, cov)

\* C4: a seeded call that runs alone draws from the stream of its seed, and
\* two calls, one after the other, both seeded, with the same seed, pools and
\* volume return the same records in the same order.
C4_SameSeedSameOutput ==
    /\ \A t \in Inv :
          (Running(t) /\ use_seed[t] /\ ~concurrent) => rng.id = randseed[t]
    /\ (/\ pc[1] = "done" /\ pc[2] = "done"
        /\ ~concurrent
        /\ use_seed[1] /\ use_seed[2]
        /\ randseed[1] = randseed[2]
        /\ fprimers_full[1] = fprimers_full[2]
        /\ rprimers_full[1] = rprimers_full[2]
        /\ volume_nl[1] = volume_nl[2])
           => df[1] = df[2]

C4_Witness ==
    /\ pc[1] = "done" /\ pc[2] = "done"
    /\ ~concurrent
    /\ use_seed[1] /\ use_seed[2]
    /\ randseed[1] = randseed[2]
    /\ fprimers_full[1] = fprimers_full[2]
    /\ rprimers_full[1] = rprimers_full[2]
    /\ volume_nl[1] = volume_nl[2]
    /\ Len(df[1]) = 2 * NumCells

\* C7: two calls with distinct seeds, their steps interleaved, each return
\* what the call returns when run alone.
C7_ConcurrentIndependent ==
    \A t \in Inv :
        (/\ pc[t] = "done"
         /\ use_seed[1] /\ use_seed[2]
         /\ randseed[1] # randseed[2]
         /\ AloneFrame(t) # Unknown)
            => df[t] = AloneFrame(t)

\* Alone agrees with the stepwise model: a seeded call that no other call
\* overlaps returns AloneFrame
SequentialAlone ==
    \A t \in Inv :
        (pc[t] = "done" /\ use_seed[t] /\ ~concurrent /\ AloneFrame(t) # Unknown)
            => df[t] = AloneFrame(t)

(***************************************************************************)
(* The partitioner: __post_init__ / split_primers_from_grid, and           *)
(* sample_primers called with an offset.                                   *)
(***************************************************************************)
\* s[start::step] of Python, for start >= 0 and step >= 1
RECURSIVE Stride(_, _, _)
Stride(s, start, step) ==
    IF start >= Len(s) THEN <<>>
    ELSE <<s[start + 1]>> \o Stride(s, start + step, step)

\* ndarray.flatten() of a two-dimensional array: its rows one after the other
RECURSIVE Flatten(_)
Flatten(rows) ==
    IF Len(rows) = 0 THEN <<>> ELSE Head(rows) \o Flatten(Tail(rows))

\* g[r0::2, c0::2]
Sub(g, r0, c0) ==
    LET rs == Stride(g, r0, 2)
    IN [i \in 1..Len(rs) |-> Stride(rs[i], c0, 2)]

\* a slip: the reverse primers taken from the odd rows but the even columns
SplitPrimersEvenCols(g) == <<Flatten(Sub(g, 0, 0)), Flatten(Sub(g, 1, 0))>>

\* split_primers_from_grid: grid[::2, ::2].flatten(), grid[1::2, 1::2].flatten()
SplitPrimersFromGrid(g) == <<Flatten(Sub(g, 0, 0)), Flatten(Sub(g, 1, 1))>>

\* a grid of nr x nc distinct opaque identifiers (row r, column c: 10 r + c)
Grid(nr, nc) == [r \in 1..nr |-> [c \in 1..nc |-> 10 * (r - 1) + (c - 1)]]

GridRows(g) == Len(g)
GridCols(g) == IF Len(g) = 0 THEN 0 ELSE Len(g[1])

\* generator 1 constructed with a grid and no pools; sample_primers is going
\* to be called with `offset`
InitPart ==
    /\ rng = [id |-> Unseeded, pos |-> 0]
    /\ streams = [s \in Seeds |-> <<>>]
    /\ pc = [t \in Inv |-> IF t = 1 THEN "new" ELSE "absent"]
    /\ randseed = [t \in Inv |-> 1]
    /\ use_seed = [t \in Inv |-> FALSE]
    /\ volume_nl = [t \in Inv |-> 500]
    /\ \E nr \in 1..MaxGridRows, nc \in 1..MaxGridCols :
          grid = [t \in Inv |-> IF t = 1 THEN Grid(nr, nc) ELSE <<>>]
    /\ offset \in (-1)..MaxOffset
    /\ fprimers_full = [t \in Inv |-> <<>>]
    /\ rprimers_full = [t \in Inv |-> <<>>]
    /\ fprimers = [t \in Inv |-> <<>>]
    /\ rprimers = [t \in Inv |-> <<>>]
    /\ iforward = [t \in Inv |-> None]
    /\ ireverse = [t \in Inv |-> None]
    /\ currtup = [t \in Inv |-> <<>>]
    /\ covered_list = [t \in Inv |-> <<>>]
    /\ sourcewells = [t \in Inv |-> <<>>]
    /\ destwells = [t \in Inv |-> <<>>]
    /\ vols = [t \in Inv |-> <<>>]
    /\ row = [t \in Inv |-> 0]
    /\ col = [t \in Inv |-> 0]
    /\ err = [t \in Inv |-> "none"]
    /\ df = [t \in Inv |-> <<>>]
    /\ concurrent = FALSE
    /\ InitNoWells

\* lines 43-47: the pools are None, so they are split from the grid
PostInit(t) ==
    /\ pc[t] = "new"
    /\ LET p == SplitPrimersFromGrid(grid[t])
       IN /\ fprimers_full' = [fprimers_full EXCEPT ![t] = p[1]]
          /\ rprimers_full' = [rprimers_full EXCEPT ![t] = p[2]]
    /\ pc' = [pc EXCEPT ![t] = "idle"]
    /\ UNCHANGED <<rngVars, randseed, use_seed, volume_nl, fprimers, rprimers,
                   iforward, ireverse, currtup, covered_list, sourcewells,
                   destwells, vols, row, col, err, df, concurrent, partVars,
                   wellVars>>

\* lines 49-57: sample_primers(offset) returns the two active pools
SamplePrimersCall(t) ==
    /\ pc[t] = "idle"
    /\ LET p == SamplePrimers(fprimers_full[t], rprimers_full[t], offset)
       IN /\ fprimers' = [fprimers EXCEPT ![t] = p[1]]
          /\ rprimers' = [rprimers EXCEPT ![t] = p[2]]
    /\ pc' = [pc EXCEPT ![t] = "sampled"]
    /\ UNCHANGED <<rngVars, randseed, use_seed, volume_nl, fprimers_full,
                   rprimers_full, iforward, ireverse, currtup, covered_list,
                   sourcewells, destwells, vols, row, col, err, df, concurrent,
                   partVars, wellVars>>

NextPart == \E t \in Inv : PostInit(t) \/ SamplePrimersCall(t)

SpecPart == InitPart /\ [][NextPart]_vars

\* C9: for a grid of even R, C >= 2 and 0 <= offset < (R/2)(C/2), the active
\* forward pool is the even-row, even-column entries in row-major order
\* without the first `offset` of them, the active reverse pool the same for
\* odd rows and odd columns; both have (R/2)(C/2) - offset entries.
C9_ActivePools ==
    LET g == grid[1]
        nr == GridRows(g)
        nc == GridCols(g)
        hr == nr \div 2
        hc == nc \div 2
    IN (/\ pc[1] = "sampled"
        /\ nr % 2 = 0 /\ nc % 2 = 0
        /\ offset >= 0 /\ offset < hr * hc)
           => /\ Len(fprimers[1]) = hr * hc - offset
              /\ Len(rprimers[1]) = hr * hc - offset
              /\ \A k \in 0..(hr * hc - offset - 1) :
                    LET j == k + offset
                    IN /\ fprimers[1][k + 1] = g[2 * (j \div hc) + 1][2 * (j % hc) + 1]
                       /\ rprimers[1][k + 1] = g[2 * (j \div hc) + 2][2 * (j % hc) + 2]

\* a 4 x 4 grid trimmed by 1: two rows of the strided selection, a pool that
\* starts in the middle of the first of them
C9_Witness ==
    /\ pc[1] = "sampled"
    /\ GridRows(grid[1]) = 4 /\ GridCols(grid[1]) = 4
    /\ offset = 1
    /\ Len(fprimers[1]) = 3 /\ Len(rprimers[1]) = 3

(***************************************************************************)
(* The well enumeration of echo_transfer.py and its inverse.               *)
(***************************************************************************)
\* a slip: the column written 0-based
RowColToWellZeroBased(r, c) == <<ChrA(r)>> \o Str(c)

\* row_col_to_well: f"{chr(ord('A') + row)}{col + 1}"
RowColToWell(r, c) == <<ChrA(r)>> \o Str(c + 1)

\* well_to_row_col: (ord(well[0].upper()) - ord('A'), int(well[1:]) - 1)
WellToRowCol(well) == <<Upper(well[1]) - 65, ParseInt(Tail(well)) - 1>>

\* wells384_list: [r + str(c) for r in ascii_uppercase[:16] for c in range(1, 25)]
Wells384List ==
    Flatten([r \in 1..16 |-> [c \in 1..24 |-> <<AsciiUppercase[r]>> \o Str(c)]])

\* the plates whose wells are listed: 8 x 12 (generate_96_well_positions),
\* 16 x 24 (generate_384_well_positions), and every plate up to
\* MaxWellRows x MaxWellCols walked by the same two loops
WellFormats ==
    {<<8, 12>>, <<16, 24>>} \cup ((1..MaxWellRows) \X (1..MaxWellCols))

InitWells ==
    /\ rng = [id |-> Unseeded, pos |-> 0]
    /\ streams = [s \in Seeds |-> <<>>]
    /\ pc = [t \in Inv |-> "absent"]
    /\ randseed = [t \in Inv |-> 1]
    /\ use_seed = [t \in Inv |-> FALSE]
    /\ volume_nl = [t \in Inv |-> 500]
    /\ fprimers_full = [t \in Inv |-> <<>>]
    /\ rprimers_full = [t \in Inv |-> <<>>]
    /\ fprimers = [t \in Inv |-> <<>>]
    /\ rprimers = [t \in Inv |-> <<>>]
    /\ iforward = [t \in Inv |-> None]
    /\ ireverse = [t \in Inv |-> None]
    /\ currtup = [t \in Inv |-> <<>>]
    /\ covered_list = [t \in Inv |-> <<>>]
    /\ sourcewells = [t \in Inv |-> <<>>]
    /\ destwells = [t \in Inv |-> <<>>]
    /\ vols = [t \in Inv |-> <<>>]
    /\ row = [t \in Inv |-> 0]
    /\ col = [t \in Inv |-> 0]
    /\ err = [t \in Inv |-> "none"]
    /\ df = [t \in Inv |-> <<>>]
    /\ concurrent = FALSE
    /\ InitNoPart
    /\ wfmt \in WellFormats
    /\ wrow = 0
    /\ wcol = 0
    /\ wells = <<>>
    /\ wpc = "listing"
    /\ decoded = <<>>

\* wells.append(row_col_to_well(row, col)) and the step of the two loops
AppendWell ==
    /\ wpc = "listing"
    /\ wrow < wfmt[1]
    /\ wells' = Append(wells, RowColToWell(wrow, wcol))
    /\ IF wcol + 1 < wfmt[2]
       THEN wcol' = wcol + 1 /\ UNCHANGED wrow
       ELSE wcol' = 0 /\ wrow' = wrow + 1
    /\ UNCHANGED <<rngVars, genVars, partVars, wfmt, wpc, decoded>>

\* return wells
ReturnWells ==
    /\ wpc = "listing"
    /\ wrow = wfmt[1]
    /\ wpc' = "listed"
    /\ UNCHANGED <<rngVars, genVars, partVars, wfmt, wrow, wcol, wells, decoded>>

\* well_to_row_col applied to the i-th label of the returned list
DecodeWell(i) ==
    /\ wpc = "listed"
    /\ i \in 1..Len(wells)
    /\ decoded' = <<i, WellToRowCol(wells[i])>>
    /\ UNCHANGED <<rngVars, genVars, partVars, wfmt, wrow, wcol, wells, wpc>>

NextWells ==
    \/ AppendWell
    \/ ReturnWells
    \/ \E i \in 1..(16 * 24) : DecodeWell(i)

SpecWells == InitWells /\ [][NextWells]_vars

\* C8: for R <= 26 rows and C columns the list has R*C labels, all distinct,
\* in row-major order with columns numbered from 1, and the label at (r, c)
\* decodes back to (r, c).
C8_WellEnumeration ==
    (wpc = "listed" /\ wfmt[1] <= 26) =>
        /\ Len(wells) = wfmt[1] * wfmt[2]
        /\ Cardinality({wells[i] : i \in 1..Len(wells)}) = Len(wells)
        /\ \A r \in 0..(wfmt[1] - 1), c \in 0..(wfmt[2] - 1) :
              LET w == wells[r * wfmt[2] + c + 1]
              IN /\ w[1] = 65 + r
                 /\ Tail(w) = Str(c + 1)
                 /\ WellToRowCol(RowColToWell(r, c)) = <<r, c>>
        /\ wfmt = <<16, 24>> => wells = Wells384List
        /\ decoded # <<>> =>
              decoded[2] = <<(decoded[1] - 1) \div wfmt[2], (decoded[1] - 1) % wfmt[2]>>

\* the last well of the 384-well plate, P24, decoded to (15, 23)
C8_Witness ==
    /\ wpc = "listed"
    /\ wfmt = <<16, 24>>
    /\ decoded = <<384, <<15, 23>>>>
    /\ wells[384] = <<80, 50, 52>>
    /\ wells[1] = <<65, 49>>

====
